---- MODULE Spec2Model ----
(***************************************************************************)
(* Model of the openchecker agent: the per-message job processing of       *)
(* agent.callback_func (decode, workspace setup, checker dispatch,         *)
(* callback delivery, ack/nack, workspace cleanup).                        *)
(*                                                                         *)
(* The file system is reduced to the one workspace directory of the        *)
(* project (Path(project_info.name)) and the set of file names in it.      *)
(* External tools, the network and the broker are nondeterministic         *)
(* outcomes drawn in the actions.                                          *)
(***************************************************************************)
EXTENDS Naturals, Sequences, FiniteSets, TLC

\* Longest command_list drawn for a message.
MaxCmds == 2

(***************************************************************************)
(* Values                                                                  *)
(***************************************************************************)

\* Python's None where a string is expected, and the falsy test `not x`.
NoneVal == "<None>"

Falsy(x) == x \in {NoneVal, ""}

\* The command names the dispatch chain of callback_func recognises.
Registered ==
    {"osv-scanner", "scancode", "binary-checker", "release-checker",
     "url-checker", "sonar-scanner", "dependency-checker", "readme-checker",
     "maintainers-checker", "readme-opensource-checker", "build-doc-checker",
     "api-doc-checker", "languages-detector",
     "changed-files-since-commit-detector", "oat-scanner"}

\* The tokens messages are built from: registered names and an unknown one.
Tokens ==
    {"osv-scanner", "readme-checker", "readme-opensource-checker",
     "build-doc-checker", "release-checker",
     "changed-files-since-commit-detector", "no-such-checker"}

CommandLists == UNION {[1..n -> Tokens] : n \in 0..MaxCmds}

\* A project URL: absent (None), the empty string, or a parsed-out text.
NoUrl == [kind |-> "none", scheme |-> "", host |-> "", owner |-> "", repo |-> "", ext |-> ""]

EmptyUrl == [kind |-> "empty", scheme |-> "", host |-> "", owner |-> "", repo |-> "", ext |-> ""]

GoodUrl == [kind |-> "url", scheme |-> "https", host |-> "github.com",
            owner |-> "acme", repo |-> "widget", ext |-> ".git"]

NoGitUrl == [GoodUrl EXCEPT !.ext = ""]

OtherHostUrl == [GoodUrl EXCEPT !.host = "gitlab.com"]

Urls == {NoUrl, EmptyUrl, GoodUrl, NoGitUrl, OtherHostUrl}

\* Contents of the remote repository, as the set of file names a clone yields.
Repos ==
    {{"README.md", "README.OpenSource", "oh-package.json5", "oh-package-lock.json5"},
     {"package.json", "oh-package.json5"}}

\* A checker result: a structured value, or the {"error": msg} object.
Ok(v) == [tag |-> "ok", val |-> v]

Err(m) == [tag |-> "error", val |-> {m}]

EmptyMap == [k \in {} |-> Err("")]

Put(map, k, v) == [x \in (DOMAIN map) \cup {k} |-> IF x = k THEN v ELSE map[x]]

NoWorkspace == [exists |-> FALSE, files |-> {}]

Messages ==
    {[body |-> "badjson", command_list |-> <<>>, project_url |-> NoUrl,
      commit_hash |-> NoneVal, callback_url |-> NoneVal,
      task_metadata |-> "absent", version_number |-> "absent"],
     [body |-> "nonobject", command_list |-> <<>>, project_url |-> NoUrl,
      commit_hash |-> NoneVal, callback_url |-> NoneVal,
      task_metadata |-> "absent", version_number |-> "absent"]}
    \cup
    {[body |-> "object", command_list |-> <<>>, project_url |-> u,
      commit_hash |-> NoneVal, callback_url |-> NoneVal,
      task_metadata |-> "absent", version_number |-> "absent"] :
        u \in Urls \ {GoodUrl}}
    \cup
    {[body |-> "object", command_list |-> <<>>, project_url |-> GoodUrl,
      commit_hash |-> NoneVal, callback_url |-> NoneVal,
      task_metadata |-> "null", version_number |-> "absent"]}
    \cup
    [body : {"object"}, command_list : CommandLists, project_url : {GoodUrl},
     commit_hash : {NoneVal}, callback_url : {"http://x/cb"},
     task_metadata : {"absent"}, version_number : {"absent"}]
    \cup
    [body : {"object"}, command_list : CommandLists, project_url : {GoodUrl},
     commit_hash : {NoneVal, "c0ffee"}, callback_url : {NoneVal, "http://x/cb"},
     task_metadata : {"object"}, version_number : {"absent", "null", "v1"}]

NoMessage == [body |-> "none", command_list |-> <<>>, project_url |-> NoUrl,
              commit_hash |-> NoneVal, callback_url |-> NoneVal,
              task_metadata |-> "absent", version_number |-> "absent"]

NoPayload == [command_list |-> <<>>, project_url |-> NoUrl,
              task_metadata |-> [kind |-> "unset", version_number |-> "absent"],
              scan_results |-> EmptyMap]


\* What the callback endpoint can do with the POST: post_with_backoff gives up
\* and raises, or it returns the final response (status code and body text).
NoResponse == [raised |-> FALSE, status_code |-> 0, text |-> NoneVal]

Responses ==
    {[raised |-> TRUE, status_code |-> 0, text |-> NoneVal],
     [raised |-> FALSE, status_code |-> 200, text |-> "OK"],
     [raised |-> FALSE, status_code |-> 200, text |-> ""],
     [raised |-> FALSE, status_code |-> 500, text |-> "Internal Server Error"]}

\* Outcomes of the external steps one checker invocation can take: the
\* checker's tool or API call, a git clone, and the rm -rf of cleanup.
Envs == [tool : {"ok", "fail"}, clone : BOOLEAN, rm : BOOLEAN]

(***************************************************************************)
(* ProjectManager                                                          *)
(***************************************************************************)

\* Variant: the pattern without the trailing \.git.
_parse_project_url_NoSuffix(u) ==
    /\ u.kind = "url"
    /\ u.scheme \in {"http", "https"}
    /\ u.host \in {"github.com", "gitee.com", "gitcode.com"}
    /\ u.owner # ""
    /\ u.repo # ""

\* re.match of https?://(?:www\.)?(github\.com|gitee\.com|gitcode\.com)/
\* ([^/]+)/([^/]+)\.git against the URL text.
_parse_project_url(u) ==
    /\ u.kind = "url"
    /\ u.scheme \in {"http", "https"}
    /\ u.host \in {"github.com", "gitee.com", "gitcode.com"}
    /\ u.owner # ""
    /\ u.repo # ""
    /\ u.ext = ".git"

\* Variant: no test of the directory; git clone replaces what is there.
clone_if_not_exists_Always(w, r, cloneOk) ==
    IF cloneOk
    THEN [ws |-> [exists |-> TRUE, files |-> r], raised |-> FALSE, ev |-> <<"clone">>]
    ELSE [ws |-> w, raised |-> TRUE, ev |-> <<"clone">>]

\* git clone --depth=1 when the directory is missing; a failed clone raises
\* and leaves no directory.
clone_if_not_exists(w, r, cloneOk) ==
    IF w.exists
    THEN [ws |-> w, raised |-> FALSE, ev |-> <<>>]
    ELSE IF cloneOk
         THEN [ws |-> [exists |-> TRUE, files |-> r], raised |-> FALSE, ev |-> <<"clone">>]
         ELSE [ws |-> w, raised |-> TRUE, ev |-> <<"clone">>]

\* rm -rf of the directory when it exists; a failing rm raises (check=True)
\* and the directory stays.
cleanup(w, rmOk) ==
    IF ~w.exists
    THEN [ws |-> w, raised |-> FALSE, ev |-> <<"cleanup">>]
    ELSE IF rmOk
         THEN [ws |-> NoWorkspace, raised |-> FALSE, ev |-> <<"cleanup", "rm">>]
         ELSE [ws |-> w, raised |-> TRUE, ev |-> <<"cleanup", "rm">>]

\* find_files with the default search_dirs: a missing directory is skipped.
find_files(w, names) == IF w.exists THEN w.files \cap names ELSE {}

\* get_file_content: the content when the file exists, else None.
get_file_content(w, name) == w.exists /\ name \in w.files

\* What an external tool run on an existing project_path sees.
View(w) == w.files

(***************************************************************************)
(* Checkers.  Each yields [ws, res, err, raised, msg, ev]: the workspace   *)
(* it leaves, the value it returns (with the error of a (result, error)    *)
(* pair, None otherwise), whether it raises instead (with message msg),    *)
(* and the side effects it had.                                            *)
(***************************************************************************)

Returns(w, r, ev) ==
    [ws |-> w, res |-> r, err |-> NoneVal, raised |-> FALSE, msg |-> "", ev |-> ev]

ReturnsPair(w, r, e, ev) ==
    [ws |-> w, res |-> r, err |-> e, raised |-> FALSE, msg |-> "", ev |-> ev]

Raises(w, m, ev) ==
    [ws |-> w, res |-> Err(m), err |-> NoneVal, raised |-> TRUE, msg |-> m, ev |-> ev]

\* run_osv_scanner: oh-package-lock.json5 is renamed to package-lock.json for
\* the scan and renamed back after a scan that succeeded; a failed scan
\* (CalledProcessError, as on a missing directory) goes to the except clause
\* and returns the error.
run_osv_scanner(w, env) ==
    LET rename_flag == /\ w.exists
                       /\ "oh-package-lock.json5" \in w.files
                       /\ "package-lock.json" \notin w.files
        renamed == IF rename_flag
                   THEN [w EXCEPT !.files = (@ \ {"oh-package-lock.json5"})
                                              \cup {"package-lock.json"}]
                   ELSE w
    IN  IF env.tool = "ok" /\ w.exists
        THEN Returns(w, Ok(View(renamed)), <<>>)
        ELSE Returns(renamed, Err("osv-scanner failed"), <<>>)

\* run_scancode, run_binary_checker, run_sonar_scanner, run_dependency_checker,
\* run_languages_detector: an external tool on project_path, which fails on a
\* missing directory; every exception is caught and returned as {"error": ...}.
run_tool(w, env) ==
    IF env.tool = "ok" /\ w.exists
    THEN Returns(w, Ok(View(w)), <<>>)
    ELSE Returns(w, Err("tool failed"), <<>>)

\* run_readme_checker: find_files(**/README*).
run_readme_checker(w) ==
    Returns(w, Ok(find_files(w, {"README.md", "README.OpenSource"})), <<>>)

\* run_maintainers_checker: find_files(MAINTAINERS*, COMMITTERS*, OWNERS*, CODEOWNERS*).
run_maintainers_checker(w) ==
    Returns(w, Ok(find_files(w, {"MAINTAINERS", "CODEOWNERS"})), <<>>)

\* run_oat_scanner: without OAT.xml a 404 result, else the audit tool.
run_oat_scanner(w, env) ==
    IF ~(w.exists /\ "OAT.xml" \in w.files)
    THEN Returns(w, Ok({"status_code 404"}), <<>>)
    ELSE IF env.tool = "ok"
         THEN Returns(w, Ok(View(w) \cup {"status_code 200"}), <<>>)
         ELSE Returns(w, Ok({"status_code 500"}), <<>>)

\* run_changed_files_detector: git diff against commit_hash.
run_changed_files_detector(w, env) ==
    IF env.tool = "ok" /\ w.exists
    THEN Returns(w, Ok({"changed_files"}), <<>>)
    ELSE Returns(w, Err("git diff failed"), <<>>)

\* check_url: requests.head on project_url; never raises.
check_url(w, env) ==
    Returns(w, Ok({IF env.tool = "ok" THEN "pass" ELSE "fail"}), <<>>)

\* check_release_content returns (result, error); callback_func stores the
\* result and drops the error.
check_release_content(w, env) ==
    IF env.tool = "ok"
    THEN ReturnsPair(w, Ok({"is_released"}), NoneVal, <<>>)
    ELSE ReturnsPair(w, Ok({}), "Not found", <<>>)

\* check_readme_opensource: a ProjectManager of its own on the same
\* directory: clone_if_not_exists, read README.OpenSource, and cleanup in the
\* finally clause.  An exception of the body is caught and returned as
\* (False, message); an exception of cleanup leaves the function.
check_readme_opensource(w, r, env) ==
    LET c == clone_if_not_exists(w, r, env.clone)
        valid == /\ ~c.raised
                 /\ env.tool = "ok"
                 /\ get_file_content(c.ws, "README.OpenSource")
        d == cleanup(c.ws, env.rm)
    IN  IF d.raised
        THEN Raises(d.ws, "rm -rf failed", c.ev \o d.ev)
        ELSE IF valid
             THEN ReturnsPair(d.ws, Ok({"valid"}), NoneVal, c.ev \o d.ev)
             ELSE ReturnsPair(d.ws, Ok({}), "README.OpenSource does not exist.", c.ev \o d.ev)

\* check_doc_content (build-doc and api-doc): the same ProjectManager pattern;
\* the result is the list of documents the completion accepted.
check_doc_content(w, r, env) ==
    LET c == clone_if_not_exists(w, r, env.clone)
        failed == c.raised \/ env.tool = "fail"
        found_docs == IF failed THEN {} ELSE find_files(c.ws, {"README.md"})
        d == cleanup(c.ws, env.rm)
    IN  IF d.raised
        THEN Raises(d.ws, "rm -rf failed", c.ev \o d.ev)
        ELSE ReturnsPair(d.ws, Ok(found_docs),
                         IF failed THEN "completion failed" ELSE NoneVal,
                         c.ev \o d.ev)

\* Variant: no test of commit_hash; git diff None..HEAD fails and the
\* detector returns its own error.
changed_files_branch_NoHashTest(w, commit_hash, env) ==
    IF Falsy(commit_hash)
    THEN Returns(w, Err("git diff failed"), <<>>)
    ELSE run_changed_files_detector(w, env)

\* Lines 542-546: the changed-files-since-commit-detector branch raises
\* ValueError when commit_hash is None or empty.
changed_files_branch(w, commit_hash, env) ==
    IF Falsy(commit_hash)
    THEN Raises(w, "Commit hash is required for changed-files-since-commit-detector", <<>>)
    ELSE run_changed_files_detector(w, env)

\* One branch of the if/elif chain of the dispatch loop.  An unknown command
\* only logs a warning: nothing is invoked.
IsKnown(command) == command \in Registered

RunChecker(command, w, r, commit_hash, env) ==
    CASE command = "osv-scanner" -> run_osv_scanner(w, env)
      [] command \in {"scancode", "binary-checker", "sonar-scanner",
                      "dependency-checker", "languages-detector"} -> run_tool(w, env)
      [] command = "release-checker" -> check_release_content(w, env)
      [] command = "url-checker" -> check_url(w, env)
      [] command = "readme-checker" -> run_readme_checker(w)
      [] command = "maintainers-checker" -> run_maintainers_checker(w)
      [] command = "readme-opensource-checker" -> check_readme_opensource(w, r, env)
      [] command \in {"build-doc-checker", "api-doc-checker"} -> check_doc_content(w, r, env)
      [] command = "changed-files-since-commit-detector" ->
            changed_files_branch(w, commit_hash, env)
      [] command = "oat-scanner" -> run_oat_scanner(w, env)

\* Variant: the except clause starts a fresh mapping for the failed command.
DispatchOne_Reset(results, command, out) ==
    IF out.raised
    THEN Put(EmptyMap, command, Err(out.msg))
    ELSE Put(results, command, out.res)

\* Variant: the except clause only logs.
DispatchOne_DropError(results, command, out) ==
    IF out.raised
    THEN results
    ELSE Put(results, command, out.res)

\* The body of the for loop for one command: the stored result, or the
\* except clause's {"error": str(e)}, or nothing for an unknown command.
DispatchOne(results, command, out) ==
    IF out.raised
    THEN Put(results, command, Err(out.msg))
    ELSE Put(results, command, out.res)

\* Line 556: the except clause logs the error of a checker that raised.
ExceptLog(out) == IF out.raised THEN <<"Error executing command">> ELSE <<>>

\* Variant: the status code is not looked at.
request_url_IgnoreStatus(resp) == resp.text

\* request_url: the response text on status 200, else None.
request_url(resp) == IF resp.status_code = 200 THEN resp.text ELSE NoneVal

IsoOff == [stage |-> "off"]

MqOff == [stage |-> "off"]

ApiOff == [stage |-> "off"]

VARIABLES
    pc,           \* position of callback_func
    message,      \* the message being processed (body and decoded fields)
    repo,         \* content of the remote repository named by project_url
    ws,           \* the workspace directory on disk: [exists, files]
    res_payload,  \* callback_func's res_payload
    idx,          \* index of the next command of command_list
    exc,          \* the steps of this job that raised into the outer try; {} when none
    materialized, \* clone_if_not_exists of callback_func has returned
    response,     \* the callback POST's outcome, NoResponse before it
    posted,       \* payloads handed to request_url in this job
    acks,         \* basic_ack calls for this message
    nacks,        \* basic_nack calls for this message
    trace,        \* the side effects of this job, in order
    iso,          \* two dispatch loops side by side on one repository, or IsoOff
    mq,           \* consumer(): its threads, connections and the broker, or MqOff
    api           \* the OpenCheck resource of main.py serving a request, or ApiOff

vars == <<pc, message, repo, ws, res_payload, idx, exc, materialized, response, posted,
          acks, nacks, trace, iso, mq, api>>

scan_results == res_payload.scan_results

Init ==
    /\ pc = "idle"
    /\ message = NoMessage
    /\ repo = {}
    /\ ws = NoWorkspace
    /\ res_payload = NoPayload
    /\ idx = 1
    /\ exc = {}
    /\ materialized = FALSE
    /\ response = NoResponse
    /\ posted = <<>>
    /\ acks = 0
    /\ nacks = 0
    /\ trace = <<>>
    /\ iso = IsoOff
    /\ mq = MqOff
    /\ api = ApiOff

(***************************************************************************)
(* callback_func                                                           *)
(***************************************************************************)

command_list == message.command_list

\* message.get('task_metadata', {}): the default applies to an absent key.
task_metadata ==
    [kind |-> "object", version_number |-> message.version_number]

\* task_metadata.get("version_number", "None")
version_number ==
    CASE message.version_number = "absent" -> "None"
      [] message.version_number = "null" -> NoneVal
      [] OTHER -> message.version_number

\* The broker hands a message to callback_func.
Deliver ==
    /\ pc = "idle"
    /\ \E m \in Messages :
          /\ message' = m
          /\ IF m.body = "object" /\ _parse_project_url(m.project_url)
                /\ m.task_metadata # "null"
             THEN repo' \in Repos
             ELSE repo' = {}
    /\ pc' = "decode"
    /\ res_payload' = NoPayload
    /\ idx' = 1
    /\ exc' = {}
    /\ materialized' = FALSE
    /\ response' = NoResponse
    /\ posted' = <<>>
    /\ acks' = 0
    /\ nacks' = 0
    /\ trace' = <<>>
    /\ UNCHANGED <<iso, mq, api>>
    /\ UNCHANGED ws

\* Variant: no test of project_url and no URL parsing before the clone.
DecodeFails_NoUrlTest ==
    \/ message.body # "object"
    \/ message.task_metadata = "null"

\* Lines 421-442: json.loads, the field reads, the project_url test and the
\* ProjectManager constructor; any exception goes to the outer except.
DecodeFails ==
    \/ message.body # "object"
    \/ message.task_metadata = "null"
    \/ message.project_url.kind \in {"none", "empty"}
    \/ ~_parse_project_url(message.project_url)

\* Variant: the payload starts with a placeholder entry in scan_results.
Decode_Placeholder ==
    /\ pc = "decode"
    /\ IF DecodeFails
       THEN /\ pc' = "nack"
            /\ exc' = {"decode"}
            /\ UNCHANGED res_payload
       ELSE /\ pc' = "clone"
            /\ exc' = {}
            /\ res_payload' = [command_list |-> command_list,
                               project_url |-> message.project_url,
                               task_metadata |-> task_metadata,
                               scan_results |-> Put(EmptyMap, "status", Ok({}))]
    /\ UNCHANGED <<iso, mq, api>>
    /\ UNCHANGED <<message, repo, ws, idx, materialized, response, posted,
                   acks, nacks, trace>>

\* Variant: the payload echoes only the recognised commands.
Decode_EchoKnown ==
    /\ pc = "decode"
    /\ IF DecodeFails
       THEN /\ pc' = "nack"
            /\ exc' = {"decode"}
            /\ UNCHANGED res_payload
       ELSE /\ pc' = "clone"
            /\ exc' = {}
            /\ res_payload' = [command_list |-> SelectSeq(command_list, IsKnown),
                               project_url |-> message.project_url,
                               task_metadata |-> task_metadata,
                               scan_results |-> EmptyMap]
    /\ UNCHANGED <<iso, mq, api>>
    /\ UNCHANGED <<message, repo, ws, idx, materialized, response, posted,
                   acks, nacks, trace>>

Decode ==
    /\ pc = "decode"
    /\ IF DecodeFails
       THEN /\ pc' = "nack"
            /\ exc' = {"decode"}
            /\ UNCHANGED res_payload
       ELSE /\ pc' = "clone"
            /\ exc' = {}
            /\ res_payload' = [command_list |-> command_list,
                               project_url |-> message.project_url,
                               task_metadata |-> task_metadata,
                               scan_results |-> EmptyMap]
    /\ UNCHANGED <<iso, mq, api>>
    /\ UNCHANGED <<message, repo, ws, idx, materialized, response, posted,
                   acks, nacks, trace>>

\* Line 446: project.clone_if_not_exists().
Clone ==
    /\ pc = "clone"
    /\ \E cloneOk \in BOOLEAN :
          LET c == clone_if_not_exists(ws, repo, cloneOk)
          IN  /\ ws' = c.ws
              /\ trace' = trace \o c.ev
              /\ exc' = IF c.raised THEN {"clone"} ELSE {}
              /\ materialized' = ~c.raised
              /\ pc' = IF c.raised THEN "finally" ELSE "checkout"
    /\ UNCHANGED <<iso, mq, api>>
    /\ UNCHANGED <<message, repo, res_payload, idx, response, posted, acks, nacks>>

\* Variant: the checkout is made only on a directory this job cloned.
Checkout_OnlyFreshClone ==
    /\ pc = "checkout"
    /\ IF version_number = "None" \/ trace = <<>>
       THEN /\ pc' = "lockfiles"
            /\ UNCHANGED <<exc, trace>>
       ELSE \E gitOk \in BOOLEAN :
               LET failed == version_number = NoneVal \/ ~gitOk
               IN  /\ trace' = Append(trace, "checkout")
                   /\ exc' = IF failed THEN {"checkout"} ELSE {}
                   /\ pc' = IF failed THEN "finally" ELSE "lockfiles"
    /\ UNCHANGED <<iso, mq, api>>
    /\ UNCHANGED <<message, repo, ws, res_payload, idx, materialized, response,
                   posted, acks, nacks>>

\* Lines 449-456: git checkout when version_number != "None".  A None
\* argument makes subprocess.run raise TypeError; a missing ref makes git fail.
Checkout ==
    /\ pc = "checkout"
    /\ IF version_number = "None"
       THEN /\ pc' = "lockfiles"
            /\ UNCHANGED <<exc, trace>>
       ELSE \E gitOk \in BOOLEAN :
               LET failed == version_number = NoneVal \/ ~gitOk
               IN  /\ trace' = Append(trace, "checkout")
                   /\ exc' = IF failed THEN {"checkout"} ELSE {}
                   /\ pc' = IF failed THEN "finally" ELSE "lockfiles"
    /\ UNCHANGED <<iso, mq, api>>
    /\ UNCHANGED <<message, repo, ws, res_payload, idx, materialized, response,
                   posted, acks, nacks>>

\* Lines 459-485: npm install / ohpm install when a manifest has no lock file.
NeedsNpm(w) == "package.json" \in w.files /\ "package-lock.json" \notin w.files

NeedsOhpm(w) == "oh-package.json5" \in w.files /\ "oh-package-lock.json5" \notin w.files

LockFiles ==
    /\ pc = "lockfiles"
    /\ \E npmOk \in BOOLEAN, ohpmOk \in BOOLEAN :
          LET npmRun  == NeedsNpm(ws)
              w1      == IF npmRun /\ npmOk
                         THEN [ws EXCEPT !.files = @ \cup {"package-lock.json"}]
                         ELSE ws
              npmFail == npmRun /\ ~npmOk
              ohpmRun == ~npmFail /\ NeedsOhpm(w1)
              w2      == IF ohpmRun /\ ohpmOk
                         THEN [w1 EXCEPT !.files = @ \cup {"oh-package-lock.json5"}]
                         ELSE w1
              failed  == npmFail \/ (ohpmRun /\ ~ohpmOk)
          IN  /\ ws' = w2
              /\ trace' = trace \o (IF npmRun THEN <<"npm install">> ELSE <<>>)
                                \o (IF ohpmRun THEN <<"ohpm install">> ELSE <<>>)
              /\ exc' = IF failed THEN {"lockfiles"} ELSE {}
              /\ pc' = IF failed THEN "finally" ELSE "dispatch"
    /\ idx' = 1
    /\ UNCHANGED <<iso, mq, api>>
    /\ UNCHANGED <<message, repo, res_payload, materialized, response, posted,
                   acks, nacks>>

\* Variant: no try/except around one command; a checker that raises ends the
\* loop and the exception reaches the finally clause.
DispatchChecker_NoIsolation ==
    /\ pc = "dispatch"
    /\ idx <= Len(command_list)
    /\ IsKnown(command_list[idx])
    /\ \E env \in Envs :
          LET command == command_list[idx]
              out == RunChecker(command, ws, repo, message.commit_hash, env)
          IN  /\ res_payload' = IF out.raised THEN res_payload
                                ELSE [res_payload EXCEPT
                                         !.scan_results = Put(@, command, out.res)]
              /\ ws' = out.ws
              /\ trace' = trace \o <<command>> \o out.ev
              /\ exc' = IF out.raised THEN {"checker"} ELSE {}
              /\ pc' = IF out.raised THEN "finally" ELSE "dispatch"
    /\ idx' = idx + 1
    /\ UNCHANGED <<iso, mq, api>>
    /\ UNCHANGED <<message, repo, materialized, response, posted, acks, nacks>>

\* Variant: a command that already has an entry in scan_results is not
\* invoked again.
DispatchChecker_Dedup ==
    /\ pc = "dispatch"
    /\ idx <= Len(command_list)
    /\ IsKnown(command_list[idx])
    /\ IF command_list[idx] \in DOMAIN scan_results
       THEN UNCHANGED <<res_payload, ws, trace>>
       ELSE \E env \in Envs :
               LET command == command_list[idx]
                   out == RunChecker(command, ws, repo, message.commit_hash, env)
               IN  /\ res_payload' = [res_payload EXCEPT
                                         !.scan_results = DispatchOne(@, command, out)]
                   /\ ws' = out.ws
                   /\ trace' = trace \o <<command>> \o out.ev \o ExceptLog(out)
    /\ idx' = idx + 1
    /\ UNCHANGED <<iso, mq, api>>
    /\ UNCHANGED <<pc, message, repo, exc, materialized, response, posted, acks, nacks>>

\* Lines 488-557, one iteration for a recognised command.
DispatchChecker ==
    /\ pc = "dispatch"
    /\ idx <= Len(command_list)
    /\ IsKnown(command_list[idx])
    /\ \E env \in Envs :
          LET command == command_list[idx]
              out == RunChecker(command, ws, repo, message.commit_hash, env)
          IN  /\ res_payload' = [res_payload EXCEPT
                                    !.scan_results = DispatchOne(@, command, out)]
              /\ ws' = out.ws
              /\ trace' = trace \o <<command>> \o out.ev \o ExceptLog(out)
    /\ idx' = idx + 1
    /\ UNCHANGED <<iso, mq, api>>
    /\ UNCHANGED <<pc, message, repo, exc, materialized, response, posted, acks, nacks>>

\* Variant: the else branch raises, so the except clause records an error.
SkipUnknown_Record ==
    /\ pc = "dispatch"
    /\ idx <= Len(command_list)
    /\ ~IsKnown(command_list[idx])
    /\ res_payload' = [res_payload EXCEPT
                          !.scan_results = Put(@, command_list[idx], Err("Unknown command"))]
    /\ idx' = idx + 1
    /\ UNCHANGED <<iso, mq, api>>
    /\ UNCHANGED <<pc, message, repo, ws, exc, materialized, response,
                   posted, acks, nacks, trace>>

\* Lines 552-553, one iteration for an unknown command: a warning is logged.
SkipUnknown ==
    /\ pc = "dispatch"
    /\ idx <= Len(command_list)
    /\ ~IsKnown(command_list[idx])
    /\ idx' = idx + 1
    /\ UNCHANGED <<iso, mq, api>>
    /\ UNCHANGED <<pc, message, repo, ws, res_payload, exc, materialized, response,
                   posted, acks, nacks, trace>>

\* The for loop is exhausted.
LoopEnd ==
    /\ pc = "dispatch"
    /\ idx > Len(command_list)
    /\ pc' = "callback"
    /\ UNCHANGED <<iso, mq, api>>
    /\ UNCHANGED <<message, repo, ws, res_payload, idx, exc, materialized, response,
                   posted, acks, nacks, trace>>

\* Variant: no test of callback_url; the POST to a missing URL raises.
SendCallback_AlwaysPost ==
    /\ pc = "callback"
    /\ \E resp \in Responses :
          LET failed == resp.raised \/ Falsy(request_url(resp))
          IN  /\ Falsy(message.callback_url) => resp.raised
              /\ posted' = Append(posted, res_payload)
              /\ response' = resp
              /\ trace' = Append(trace, "post")
              /\ exc' = IF failed THEN {"callback"} ELSE {}
              /\ pc' = IF failed THEN "finally" ELSE "ack"
    /\ UNCHANGED <<iso, mq, api>>
    /\ UNCHANGED <<message, repo, ws, res_payload, idx, materialized, acks, nacks>>

\* Lines 560-563: the callback POST; a falsy return of request_url raises.
SendCallback ==
    /\ pc = "callback"
    /\ IF Falsy(message.callback_url)
       THEN /\ pc' = "ack"
            /\ UNCHANGED <<exc, response, posted, trace>>
       ELSE \E resp \in Responses :
               LET failed == resp.raised \/ Falsy(request_url(resp))
               IN  /\ posted' = Append(posted, res_payload)
                   /\ response' = resp
                   /\ trace' = Append(trace, "post")
                   /\ exc' = IF failed THEN {"callback"} ELSE {}
                   /\ pc' = IF failed THEN "finally" ELSE "ack"
    /\ UNCHANGED <<iso, mq, api>>
    /\ UNCHANGED <<message, repo, ws, res_payload, idx, materialized, acks, nacks>>

\* Line 565: ch.basic_ack.
Ack ==
    /\ pc = "ack"
    /\ acks' = acks + 1
    /\ trace' = Append(trace, "ack")
    /\ pc' = "finally"
    /\ UNCHANGED <<iso, mq, api>>
    /\ UNCHANGED <<message, repo, ws, res_payload, idx, exc, materialized, response,
                   posted, nacks>>

\* Variant: cleanup is the last statement of the try block, not a finally
\* clause: a pending exception skips it.
Finally_NotOnError ==
    /\ pc = "finally"
    /\ IF exc # {}
       THEN /\ pc' = "nack"
            /\ UNCHANGED <<ws, trace, exc>>
       ELSE \E rmOk \in BOOLEAN :
               LET d == cleanup(ws, rmOk)
               IN  /\ ws' = d.ws
                   /\ trace' = trace \o d.ev
                   /\ exc' = exc \cup (IF d.raised THEN {"cleanup"} ELSE {})
                   /\ pc' = IF d.raised THEN "nack" ELSE "done"
    /\ UNCHANGED <<iso, mq, api>>
    /\ UNCHANGED <<message, repo, res_payload, idx, materialized, response, posted,
                   acks, nacks>>

\* Variant: an exception of cleanup is not caught by the outer except and
\* leaves callback_func.
Finally_Escapes ==
    /\ pc = "finally"
    /\ \E rmOk \in BOOLEAN :
          LET d == cleanup(ws, rmOk)
          IN  /\ ws' = d.ws
              /\ trace' = trace \o d.ev
              /\ exc' = exc \cup (IF d.raised THEN {"cleanup"} ELSE {})
              /\ pc' = IF d.raised THEN "raised"
                       ELSE IF exc # {} THEN "nack" ELSE "done"
    /\ UNCHANGED <<iso, mq, api>>
    /\ UNCHANGED <<message, repo, res_payload, idx, materialized, response, posted,
                   acks, nacks>>

\* Variant: cleanup only on the paths that did not acknowledge.
Finally_SkipWhenAcked ==
    /\ pc = "finally"
    /\ IF acks > 0
       THEN /\ pc' = "done"
            /\ UNCHANGED <<ws, trace, exc>>
       ELSE \E rmOk \in BOOLEAN :
               LET d == cleanup(ws, rmOk)
               IN  /\ ws' = d.ws
                   /\ trace' = trace \o d.ev
                   /\ exc' = exc \cup (IF d.raised THEN {"cleanup"} ELSE {})
                   /\ pc' = "nack"
    /\ UNCHANGED <<iso, mq, api>>
    /\ UNCHANGED <<message, repo, res_payload, idx, materialized, response, posted,
                   acks, nacks>>

\* Lines 567-568: the finally clause; an exception of cleanup replaces the
\* pending one, and either reaches the outer except.
Finally ==
    /\ pc = "finally"
    /\ \E rmOk \in BOOLEAN :
          LET d == cleanup(ws, rmOk)
          IN  /\ ws' = d.ws
              /\ trace' = trace \o d.ev
              /\ exc' = exc \cup (IF d.raised THEN {"cleanup"} ELSE {})
              /\ pc' = IF exc # {} \/ d.raised THEN "nack" ELSE "done"
    /\ UNCHANGED <<iso, mq, api>>
    /\ UNCHANGED <<message, repo, res_payload, idx, materialized, response, posted,
                   acks, nacks>>

\* Lines 570-573: ch.basic_nack(requeue=False).
Nack ==
    /\ pc = "nack"
    /\ nacks' = nacks + 1
    /\ trace' = Append(trace, "nack")
    /\ pc' = "done"
    /\ UNCHANGED <<iso, mq, api>>
    /\ UNCHANGED <<message, repo, ws, res_payload, idx, exc, materialized, response,
                   posted, acks>>

\* callback_func returns to the consume loop; its locals are gone.
Return ==
    /\ pc = "done"
    /\ pc' = "idle"
    /\ message' = NoMessage
    /\ repo' = {}
    /\ res_payload' = NoPayload
    /\ idx' = 1
    /\ exc' = {}
    /\ materialized' = FALSE
    /\ response' = NoResponse
    /\ posted' = <<>>
    /\ acks' = 0
    /\ nacks' = 0
    /\ trace' = <<>>
    /\ UNCHANGED <<iso, mq, api>>
    /\ UNCHANGED ws

Next ==
    \/ Deliver
    \/ Decode
    \/ Clone
    \/ Checkout
    \/ LockFiles
    \/ DispatchChecker
    \/ SkipUnknown
    \/ LoopEnd
    \/ SendCallback
    \/ Ack
    \/ Finally
    \/ Nack
    \/ Return

Spec == Init /\ [][Next]_vars

(***************************************************************************)
(* Properties                                                              *)
(***************************************************************************)

Count(seq, e) == Cardinality({i \in 1..Len(seq) : seq[i] = e})

Range(seq) == {seq[i] : i \in 1..Len(seq)}

InRegistry(c) == c \in Registered

\* The checker invocations of the job so far, in order.
Invoked == SelectSeq(trace, InRegistry)

\* A dispatch step whose checker raised (the except clause ran).
RaisedNow ==
    /\ Len(trace') > Len(trace)
    /\ trace'[Len(trace')] = "Error executing command"

\* C1: when the checker of a command raises, scan_results[command] becomes an
\* {"error": message} object, every entry stored for another command keeps
\* its value, and the loop goes on: at the end of the loop every recognised
\* command of command_list has been invoked.
C1_RaisedCheckerIsolated ==
    /\ [][RaisedNow =>
            LET command == command_list[idx]
            IN  /\ command \in DOMAIN scan_results'
                /\ scan_results'[command] = Err(CHOOSE m \in scan_results'[command].val : TRUE)
                /\ \A k \in (DOMAIN scan_results) \ {command} :
                      /\ k \in DOMAIN scan_results'
                      /\ scan_results'[k] = scan_results[k]
                /\ pc' = "dispatch"
                /\ idx' = idx + 1]_vars
    /\ [](pc = "callback" => Invoked = SelectSeq(command_list, InRegistry))

C1_Witness ==
    /\ pc = "callback"
    /\ Cardinality(DOMAIN scan_results) = 2
    /\ \E i \in 1..(Len(trace) - 1) :
          /\ trace[i] = "Error executing command"
          /\ trace[i + 1] \in Registered

\* C2: a job whose workspace was materialized has invoked
\* ProjectManager.cleanup exactly once when its processing is over.
C2_CleanupExactlyOnce ==
    (pc = "done" /\ materialized) => Count(trace, "cleanup") = 1

SetupStages == {"decode", "clone", "checkout", "lockfiles"}

\* The code's view of the callback POST: it returned a non-empty text.
Delivered ==
    /\ Len(posted) = 1
    /\ ~response.raised
    /\ ~Falsy(request_url(response))

C4_NackOnDeliveryFailure ==
    (Len(posted) > 0 /\ (response.raised \/ response.status_code # 200))
    => (acks = 0 /\ (pc = "done" => nacks = 1))

C4_Witness ==
    /\ pc = "done"
    /\ Len(posted) = 1
    /\ ~response.raised
    /\ response.status_code = 500
    /\ nacks = 1

\* C5: a job that posted its payload and got a response is acknowledged
\* exactly when the response status is 200, whatever the response body.
C5_AckIffStatus200 ==
    (pc = "done" /\ Len(posted) > 0 /\ ~response.raised)
    => ((acks = 1) <=> (response.status_code = 200))

BadMessage ==
    \/ message.body \in {"badjson", "nonobject"}
    \/ message.body = "object" /\ message.project_url.kind \in {"none", "empty"}

\* C6: a message that is not a JSON object or has no project_url is rejected
\* with basic_nack, and nothing else happens for it: no clone, no checker,
\* no POST, no cleanup, no ack.
C6_BadMessageRejected ==
    /\ [](BadMessage =>
            /\ acks = 0
            /\ posted = <<>>
            /\ trace \in {<<>>, <<"nack">>}
            /\ scan_results = EmptyMap
            /\ (pc = "done" => nacks = 1 /\ trace = <<"nack">>))
    /\ [][BadMessage => ws' = ws]_vars

C6_Witness ==
    /\ pc = "done"
    /\ message.body = "object"
    /\ message.project_url.kind = "none"
    /\ nacks = 1
    /\ ws.exists

\* A project_url text that does not have the form
\* http(s)://{github.com|gitee.com|gitcode.com}/owner/repo.git
Unparsable(u) ==
    /\ u.kind = "url"
    /\ \/ u.ext # ".git"
       \/ u.host \notin {"github.com", "gitee.com", "gitcode.com"}
       \/ u.scheme \notin {"http", "https"}
       \/ u.owner = ""
       \/ u.repo = ""

\* C7: a job whose project_url does not parse is rejected before any
\* workspace exists: no clone, no checker, no cleanup, the directory on disk
\* is left as it was, and the message is nacked.
C7_BadUrlRejected ==
    /\ [](Unparsable(message.project_url) =>
            /\ acks = 0
            /\ posted = <<>>
            /\ trace \in {<<>>, <<"nack">>}
            /\ scan_results = EmptyMap
            /\ (pc = "done" => nacks = 1 /\ trace = <<"nack">>))
    /\ [][Unparsable(message.project_url) => ws' = ws]_vars

C7_Witness ==
    /\ pc = "done"
    /\ message.project_url = NoGitUrl
    /\ nacks = 1
    /\ ws.exists

\* The next command of the loop is not a registered checker name.
AtUnknown ==
    /\ pc = "dispatch"
    /\ idx <= Len(command_list)
    /\ command_list[idx] \notin Registered

\* C9: an unknown command token is never a key of scan_results, and the
\* iteration that meets it changes nothing but the loop position: no result,
\* no exception, no ack or nack, and the loop goes on with the next command.
C9_UnknownSkipped ==
    /\ [](DOMAIN scan_results \subseteq Registered)
    /\ [][AtUnknown =>
            /\ pc' = "dispatch"
            /\ idx' = idx + 1
            /\ UNCHANGED <<res_payload, ws, exc, acks, nacks, trace>>]_vars

C9_Witness ==
    /\ pc = "done"
    /\ command_list = <<"no-such-checker", "readme-checker">>
    /\ DOMAIN scan_results = {"readme-checker"}
    /\ acks = 1
    /\ nacks = 0

\* C10: when the dispatch loop has finished, the keys of scan_results are
\* exactly the registered names that occur in command_list.
C10_KeysAreInvokedCommands ==
    pc = "callback" => DOMAIN scan_results = Range(command_list) \cap Registered

C10_Witness ==
    /\ pc = "callback"
    /\ command_list = <<"changed-files-since-commit-detector", "no-such-checker">>
    /\ DOMAIN scan_results = {"changed-files-since-commit-detector"}
    /\ scan_results["changed-files-since-commit-detector"].tag = "error"

C13_InvokedInOrder ==
    /\ pc = "dispatch" =>
          Invoked = SelectSeq(SubSeq(command_list, 1, idx - 1), InRegistry)
    /\ pc \in {"callback", "ack"} =>
          Invoked = SelectSeq(command_list, InRegistry)
    /\ pc \in {"idle", "decode", "clone", "checkout", "lockfiles"} => Invoked = <<>>
    /\ Len(Invoked) <= Len(SelectSeq(command_list, InRegistry))
    /\ \A i \in 1..Len(Invoked) : Invoked[i] = SelectSeq(command_list, InRegistry)[i]

C13_Witness ==
    /\ pc = "callback"
    /\ command_list = <<"osv-scanner", "osv-scanner">>
    /\ Invoked = command_list

\* C14: during a job, an entry of scan_results that has been set is never
\* changed or removed by a later step of the job, also when command_list
\* repeats a command.
C14_AppendOnly ==
    [][pc # "done" =>
          \A k \in DOMAIN scan_results :
             /\ k \in DOMAIN scan_results'
             /\ scan_results'[k] = scan_results[k]]_vars

\* The clone, the checkout or the lock-file generation of the job raised.
WorkspaceFailure == exc \cap {"clone", "checkout", "lockfiles"} # {}

\* C15: after a clone, checkout or lock-file failure no checker is invoked,
\* nothing is posted and the message is never acknowledged; cleanup has been
\* invoked before the message is rejected, the message has been rejected
\* once when the job is over, and the directory is gone unless its removal
\* itself failed.
C15_WorkspaceFailureFatal ==
    WorkspaceFailure =>
       /\ pc \in {"finally", "nack", "done"}
       /\ Invoked = <<>>
       /\ scan_results = EmptyMap
       /\ posted = <<>>
       /\ "post" \notin Range(trace)
       /\ acks = 0
       /\ pc \in {"nack", "done"} =>
             /\ Count(trace, "cleanup") = 1
             /\ "cleanup" \notin exc => ~ws.exists
       /\ pc = "done" =>
             /\ nacks = 1
             /\ trace[Len(trace)] = "nack"
             /\ \E i \in 1..(Len(trace) - 1) : trace[i] = "cleanup"

C15_Witness ==
    /\ pc = "done"
    /\ exc = {"lockfiles"}
    /\ "npm install" \in Range(trace)
    /\ Count(trace, "cleanup") = 1
    /\ ~ws.exists
    /\ nacks = 1
    /\ acks = 0

\* C16: in a job whose message names a revision, the first checker
\* invocation comes after a checkout that did not fail, and no checkout and
\* no lock-file generation of the job comes after a checker invocation.
C16_CheckoutBeforeCheckers ==
    (message.version_number = "v1" /\ Invoked # <<>>) =>
       LET first == CHOOSE i \in 1..Len(trace) :
                       /\ trace[i] \in Registered
                       /\ \A j \in 1..(i - 1) : trace[j] \notin Registered
       IN  /\ \E j \in 1..(first - 1) : trace[j] = "checkout"
           /\ \A j \in first..Len(trace) :
                  trace[j] \notin {"checkout", "npm install", "ohpm install"}
           /\ exc \cap {"checkout", "lockfiles"} = {}

C16_Witness ==
    /\ pc = "callback"
    /\ message.version_number = "v1"
    /\ Len(Invoked) = 2
    /\ trace[1] = "clone"
    /\ trace[2] = "checkout"
    /\ trace[3] = "npm install"
    /\ trace[4] = "ohpm install"
    /\ trace[5] \in Registered

\* C17: a checkout is attempted exactly when task_metadata carries a set
\* version_number: a job that got past the checkout stage has attempted one
\* when version_number is a revision, and a job whose version_number is
\* absent or null never attempts one and never fails at the checkout.
C17_CheckoutIffVersionSet ==
    /\ (message.version_number = "v1" /\ pc \in {"lockfiles", "dispatch", "callback"})
       => Count(trace, "checkout") = 1
    /\ message.version_number \in {"absent", "null"}
       => /\ "checkout" \notin Range(trace)
          /\ "checkout" \notin exc

\* C18: a job whose message has no callback_url never posts anything, and
\* once its dispatch loop is behind it (the job did not fail before the loop)
\* the next step acknowledges the message: it has been acknowledged from the
\* finally clause on.
C18_NoCallbackNoPost ==
    (message.body = "object" /\ Falsy(message.callback_url)) =>
       /\ posted = <<>>
       /\ "post" \notin Range(trace)
       /\ response = NoResponse
       /\ "callback" \notin exc
       /\ (pc \in {"finally", "nack", "done"} /\ exc \cap SetupStages = {})
          => (acks = 1 /\ "ack" \in Range(trace))

C18_Witness ==
    /\ pc = "done"
    /\ message.body = "object"
    /\ Falsy(message.callback_url)
    /\ Len(Invoked) = 2
    /\ posted = <<>>
    /\ acks = 1
    /\ nacks = 0

\* The three echoed fields of a payload are the values read from the message;
\* a message without task_metadata reads as the empty object.
Echoes(payload) ==
    /\ payload.command_list = message.command_list
    /\ payload.project_url = message.project_url
    /\ payload.task_metadata.kind = "object"
    /\ payload.task_metadata.version_number = message.version_number

\* C19: from its construction to the end of the job the payload carries the
\* command_list, project_url and task_metadata of the received message, the
\* payload handed to the POST carries them too, and the POST leaves the
\* payload as it was handed over.
C19_EchoedFields ==
    /\ pc \in {"clone", "checkout", "lockfiles", "dispatch", "callback", "ack"}
       => Echoes(res_payload)
    /\ (pc \in {"finally", "nack", "done"} /\ "decode" \notin exc)
       => Echoes(res_payload)
    /\ Len(posted) > 0
       => (Echoes(posted[1]) /\ posted[1] = res_payload)

C19_Witness ==
    /\ pc = "done"
    /\ Len(posted) = 1
    /\ Echoes(posted[1])
    /\ Len(command_list) = 2
    /\ "no-such-checker" \in Range(command_list)
    /\ Cardinality(DOMAIN posted[1].scan_results) = 1
    /\ message.version_number = "v1"

\* C20: an invocation of osv-scanner leaves the workspace with the file
\* names it found: oh-package-lock.json5, renamed to package-lock.json for
\* the scan, has its name back when the checker returns, also when the scan
\* failed.
C20_LockFileRestored ==
    [][(/\ pc = "dispatch"
        /\ idx <= Len(command_list)
        /\ command_list[idx] = "osv-scanner")
       => ws'.files = ws.files]_vars

(***************************************************************************)
(* The dispatch loop of callback_func (lines 488-557) run twice on the     *)
(* same repository and the same tool outcomes: once on command_list        *)
(* [a, b] and once on [b] alone.                                           *)
(***************************************************************************)

\* The workspace at the start of the dispatch loop: the clone after the lock
\* files were generated (lines 446-485).
WorkspaceAfterSetup(r) ==
    LET f1 == IF NeedsNpm([exists |-> TRUE, files |-> r])
              THEN r \cup {"package-lock.json"} ELSE r
        f2 == IF NeedsOhpm([exists |-> TRUE, files |-> f1])
              THEN f1 \cup {"oh-package-lock.json5"} ELSE f1
    IN  [exists |-> TRUE, files |-> f2]

\* A checker failed: it raised, returned an {"error": ...} object, or
\* returned a (result, error) pair with an error.
Failed(out) == out.raised \/ out.res.tag = "error" \/ out.err # NoneVal

IsoInit ==
    /\ pc = "idle"
    /\ message = NoMessage
    /\ repo = {}
    /\ ws = NoWorkspace
    /\ res_payload = NoPayload
    /\ idx = 1
    /\ exc = {}
    /\ materialized = FALSE
    /\ response = NoResponse
    /\ posted = <<>>
    /\ acks = 0
    /\ nacks = 0
    /\ trace = <<>>
    /\ mq = MqOff
    /\ api = ApiOff
    /\ \E a \in Tokens \cap Registered, b \in Tokens \cap Registered, r \in Repos,
          h \in {NoneVal, "c0ffee"}, envA \in Envs, envB \in Envs :
          /\ a # b
          /\ iso = [stage |-> "pair", a |-> a, b |-> b, repo |-> r, commit_hash |-> h,
                    envA |-> envA, envB |-> envB, failedA |-> FALSE,
                    ws1 |-> WorkspaceAfterSetup(r), res1 |-> EmptyMap,
                    ws2 |-> WorkspaceAfterSetup(r), res2 |-> EmptyMap]

\* First iteration of the loop on [a, b].
IsoPairFirst ==
    /\ iso.stage = "pair"
    /\ LET out == RunChecker(iso.a, iso.ws1, iso.repo, iso.commit_hash, iso.envA)
       IN  iso' = [iso EXCEPT !.stage = "pair2",
                              !.ws1 = out.ws,
                              !.res1 = DispatchOne(@, iso.a, out),
                              !.failedA = Failed(out)]
    /\ UNCHANGED <<pc, message, repo, ws, res_payload, idx, exc, materialized,
                   response, posted, acks, nacks, trace, mq, api>>

\* Second iteration of the loop on [a, b].
IsoPairSecond ==
    /\ iso.stage = "pair2"
    /\ LET out == RunChecker(iso.b, iso.ws1, iso.repo, iso.commit_hash, iso.envB)
       IN  iso' = [iso EXCEPT !.stage = "alone",
                              !.ws1 = out.ws,
                              !.res1 = DispatchOne(@, iso.b, out)]
    /\ UNCHANGED <<pc, message, repo, ws, res_payload, idx, exc, materialized,
                   response, posted, acks, nacks, trace, mq, api>>

\* The only iteration of the loop on [b].
IsoAlone ==
    /\ iso.stage = "alone"
    /\ LET out == RunChecker(iso.b, iso.ws2, iso.repo, iso.commit_hash, iso.envB)
       IN  iso' = [iso EXCEPT !.stage = "done",
                              !.ws2 = out.ws,
                              !.res2 = DispatchOne(@, iso.b, out)]
    /\ UNCHANGED <<pc, message, repo, ws, res_payload, idx, exc, materialized,
                   response, posted, acks, nacks, trace, mq, api>>

IsoNext ==
    \/ IsoPairFirst
    \/ IsoPairSecond
    \/ IsoAlone

SpecIso == IsoInit /\ [][IsoNext]_vars

\* C8: when a fails in the run of [a, b], the scan_results entry of b in
\* that run equals the entry of b in the run of [b] alone.
C8_Isolation ==
    (iso.stage = "done" /\ iso.failedA) => iso.res1[iso.b] = iso.res2[iso.b]

(***************************************************************************)
(* consumer (message_queue.py 47-123): the consume loop on the main        *)
(* thread, one heartbeat_sender thread per connection, and the broker.     *)
(* callback_func is a job with the phases of its lines 559-573.  The whole *)
(* state is the record mq.                                                 *)
(***************************************************************************)

MaxFaults == 1

MaxMsgs == 2

\* Connection objects and heartbeat threads, one of each per pass of the
\* while loop that got as far; thread t serves connection t.
Conns == 1..(MaxFaults + 1)

\* Thread 0 is the main thread.
Threads == 0..(MaxFaults + 1)

Msgs == 1..MaxMsgs

NoJob == [msg |-> 0, phase |-> "none", conn |-> 0]

\* ConnectionClosedByBroker, AMQPChannelError, any other exception.
Reconnects == {"broker", "channel"}

jobvars == <<pc, message, repo, ws, res_payload, idx, exc, materialized, response,
             posted, acks, nacks, trace, iso, api>>

MqInit ==
    /\ pc = "idle"
    /\ message = NoMessage
    /\ repo = {}
    /\ ws = NoWorkspace
    /\ res_payload = NoPayload
    /\ idx = 1
    /\ exc = {}
    /\ materialized = FALSE
    /\ response = NoResponse
    /\ posted = <<>>
    /\ acks = 0
    /\ nacks = 0
    /\ trace = <<>>
    /\ iso = IsoOff
    /\ api = ApiOff
    /\ mq = [stage |-> "on",
             cpc |-> "connect",
             heartbeat_running |-> FALSE,
             heartbeat_thread |-> 0,
             connection |-> 0,
             conns |-> 0,
             is_open |-> [c \in Conns |-> FALSE],
             ch_open |-> [c \in Conns |-> FALSE],
             prefetch |-> [c \in Conns |-> 0],
             hb |-> [t \in Conns |-> "none"],
             caught |-> "none",
             ret |-> NoneVal,
             faults |-> 0,
             queue |-> Msgs,
             unacked |-> 0,
             pending |-> 0,
             job |-> [th \in Threads |-> NoJob],
             acked |-> {},
             nacked |-> {},
             before |-> {},
             runs |-> [m \in Msgs |-> 0]]

\* The channel of the current connection is gone (with the connection or on
\* its own): the broker puts the delivery that is not acknowledged back
\* into the queue.
Requeue(q) ==
    [q EXCEPT !.ch_open[q.connection] = FALSE,
              !.queue = IF q.unacked # 0 THEN @ \cup {q.unacked} ELSE @,
              !.unacked = 0,
              !.pending = 0]

\* connection.close().
Close(q) ==
    IF q.connection # 0 /\ q.is_open[q.connection]
    THEN Requeue([q EXCEPT !.is_open[q.connection] = FALSE])
    ELSE q

\* Lines 71-76: a pass of the while loop starts; BlockingConnection, channel
\* and basic_qos.  A failure leaves connection None when BlockingConnection
\* raised and set when a later call did; the connection is then open unless
\* the exception is ConnectionClosedByBroker.
Connect ==
    /\ mq.stage = "on"
    /\ mq.cpc = "connect"
    /\ \/ /\ mq.conns < MaxFaults + 1
          /\ mq' = [mq EXCEPT !.conns = @ + 1,
                              !.heartbeat_thread = 0,
                              !.connection = mq.conns + 1,
                              !.is_open[mq.conns + 1] = TRUE,
                              !.ch_open[mq.conns + 1] = TRUE,
                              !.prefetch[mq.conns + 1] = 1,
                              !.caught = "none",
                              !.cpc = "start_hb"]
       \/ /\ mq.faults < MaxFaults
          /\ \E e \in Reconnects \cup {"other"} :
                mq' = [mq EXCEPT !.faults = @ + 1, !.caught = e, !.cpc = "h_stop",
                                 !.heartbeat_thread = 0,
                                 !.connection = 0]
       \/ /\ mq.faults < MaxFaults
          /\ mq.conns < MaxFaults + 1
          /\ \E e \in Reconnects \cup {"other"} :
                mq' = [mq EXCEPT !.faults = @ + 1, !.caught = e, !.cpc = "h_stop",
                                 !.heartbeat_thread = 0,
                                 !.conns = @ + 1,
                                 !.connection = mq.conns + 1,
                                 !.is_open[mq.conns + 1] = (e # "broker")]
    /\ UNCHANGED jobvars

\* Lines 79-86: the heartbeat thread is created and started, and the
\* callback is registered.
StartHeartbeat ==
    /\ mq.stage = "on"
    /\ mq.cpc = "start_hb"
    /\ mq' = [mq EXCEPT !.heartbeat_thread = mq.connection,
                        !.hb[mq.connection] = "started",
                        !.cpc = "consume"]
    /\ UNCHANGED jobvars

\* Line 88: start_consuming hands the delivery to callback_func on the main
\* thread.
MainDispatch ==
    /\ mq.stage = "on"
    /\ mq.cpc = "consume"
    /\ mq.pending # 0
    /\ mq' = [mq EXCEPT !.job[0] = [msg |-> mq.pending, phase |-> "run",
                                    conn |-> mq.connection],
                        !.runs[mq.pending] = @ + 1,
                        !.pending = 0,
                        !.cpc = "callback"]
    /\ UNCHANGED jobvars

\* Line 88: start_consuming raises ConnectionClosedByBroker on a connection
\* the broker closed.
ConsumeSeesClosure ==
    /\ mq.stage = "on"
    /\ mq.cpc = "consume"
    /\ ~mq.is_open[mq.connection]
    /\ mq' = [mq EXCEPT !.caught = "broker", !.cpc = "h_stop", !.before = mq.acked]
    /\ UNCHANGED jobvars

\* Lines 86-88: basic_consume or start_consuming raises AMQPChannelError (the
\* channel is gone, the connection stays open) or another exception.
ConsumeRaises ==
    /\ mq.stage = "on"
    /\ mq.cpc = "consume"
    /\ mq.is_open[mq.connection]
    /\ mq.faults < MaxFaults
    /\ \/ mq' = [Requeue(mq) EXCEPT !.faults = @ + 1, !.caught = "channel",
                                    !.cpc = "h_stop", !.before = mq.acked]
       \/ mq' = [mq EXCEPT !.faults = @ + 1, !.caught = "other", !.cpc = "h_stop"]
    /\ UNCHANGED jobvars

\* A heartbeat thread that is not blocked: between two statements, or in a
\* process_data_events call (time limit 0) that runs no callback.  It gets
\* to its next statement well within any of the waits of the main thread.
Busy(t) ==
    \/ mq.hb[t] \in {"started", "check", "test_open", "exit"}
    \/ mq.hb[t] = "io" /\ mq.job[t] = NoJob

\* heartbeat_thread.join(timeout=2) returns when the thread has ended, or
\* after two seconds, which pass only while the thread is blocked in
\* time.sleep (line 66) or in a callback; with heartbeat_thread None there
\* is no call.
JoinReturns == IF mq.heartbeat_thread = 0 THEN TRUE ELSE ~Busy(mq.heartbeat_thread)

\* Lines 93-94, 102-103, 110-111: if heartbeat_thread: heartbeat_running = False.
ExceptStop ==
    /\ mq.stage = "on"
    /\ mq.cpc = "h_stop"
    /\ mq' = [mq EXCEPT !.heartbeat_running =
                            IF mq.heartbeat_thread # 0 THEN FALSE ELSE @,
                        !.cpc = "h_join"]
    /\ UNCHANGED jobvars

\* Lines 95, 104, 112: heartbeat_thread.join(timeout=2) returns when the
\* thread has ended or when the two seconds are over.
ExceptJoin ==
    /\ mq.stage = "on"
    /\ mq.cpc = "h_join"
    /\ JoinReturns
    /\ mq' = [mq EXCEPT !.cpc = IF mq.caught \in Reconnects THEN "h_sleep" ELSE "h_close"]
    /\ UNCHANGED jobvars

\* Lines 96-97, 105-106: time.sleep(60) and continue, which runs the finally
\* clause first.
ExceptSleep ==
    /\ mq.stage = "on"
    /\ mq.cpc = "h_sleep"
    /\ \A t \in Conns : ~Busy(t)
    /\ mq' = [mq EXCEPT !.cpc = "f_stop"]
    /\ UNCHANGED jobvars

\* Lines 113-114: the handler of the other exceptions closes the connection.
ExceptClose ==
    /\ mq.stage = "on"
    /\ mq.cpc = "h_close"
    /\ mq' = [Close(mq) EXCEPT !.cpc = "h_return"]
    /\ UNCHANGED jobvars

\* Line 115: return str(e), which runs the finally clause first.
ExceptReturn ==
    /\ mq.stage = "on"
    /\ mq.cpc = "h_return"
    /\ mq' = [mq EXCEPT !.ret = "error", !.cpc = "f_stop"]
    /\ UNCHANGED jobvars

\* Lines 119-120.
FinallyStop ==
    /\ mq.stage = "on"
    /\ mq.cpc = "f_stop"
    /\ mq' = [mq EXCEPT !.heartbeat_running =
                            IF mq.heartbeat_thread # 0 THEN FALSE ELSE @,
                        !.cpc = "f_join"]
    /\ UNCHANGED jobvars

\* Line 121: join(timeout=2) again.
FinallyJoin ==
    /\ mq.stage = "on"
    /\ mq.cpc = "f_join"
    /\ JoinReturns
    /\ mq' = [mq EXCEPT !.cpc = "f_close"]
    /\ UNCHANGED jobvars

\* Variant: the reconnect handlers end consumer instead of continuing.
FinallyClose_NoContinue ==
    /\ mq.stage = "on"
    /\ mq.cpc = "f_close"
    /\ mq' = [Close(mq) EXCEPT !.cpc = "returned"]
    /\ UNCHANGED jobvars

\* Variant: the finally clause leaves the connection as it is.
FinallyClose_NoClose ==
    /\ mq.stage = "on"
    /\ mq.cpc = "f_close"
    /\ mq' = [mq EXCEPT !.cpc = IF mq.caught \in Reconnects THEN "connect" ELSE "returned"]
    /\ UNCHANGED jobvars

\* Variant: every handler continues with the next connection attempt.
FinallyClose_AlwaysContinue ==
    /\ mq.stage = "on"
    /\ mq.cpc = "f_close"
    /\ mq' = [Close(mq) EXCEPT !.cpc = "connect"]
    /\ UNCHANGED jobvars

\* Lines 122-123, then the pending continue (back to lines 71-72) or return.
FinallyClose ==
    /\ mq.stage = "on"
    /\ mq.cpc = "f_close"
    /\ mq' = IF mq.caught \in Reconnects
             THEN [Close(mq) EXCEPT !.cpc = "connect"]
             ELSE [Close(mq) EXCEPT !.cpc = "returned"]
    /\ UNCHANGED jobvars

\* Line 57: the thread's first statement.
HbBegin(t) ==
    /\ mq.stage = "on"
    /\ mq.hb[t] = "started"
    /\ mq' = [mq EXCEPT !.heartbeat_running = TRUE, !.hb[t] = "check"]
    /\ UNCHANGED jobvars

\* Line 59: while heartbeat_running.
HbCheck(t) ==
    /\ mq.stage = "on"
    /\ mq.hb[t] = "check"
    /\ mq' = [mq EXCEPT !.hb[t] = IF mq.heartbeat_running THEN "test_open" ELSE "exit"]
    /\ UNCHANGED jobvars

\* Line 62: if connection and connection.is_open; line 63 is entered.
HbTestOpen(t) ==
    /\ mq.stage = "on"
    /\ mq.hb[t] = "test_open"
    /\ mq' = [mq EXCEPT !.hb[t] = IF mq.is_open[t] THEN "io" ELSE "sleep"]
    /\ UNCHANGED jobvars

\* Line 63: process_data_events, called on a BlockingConnection that the
\* main thread is using without any lock, dispatches a delivery that is
\* waiting on the connection: callback_func runs on this thread.
HbDispatch(t) ==
    /\ mq.stage = "on"
    /\ mq.hb[t] = "io"
    /\ mq.connection = t
    /\ mq.pending # 0
    /\ mq.job[t] = NoJob
    /\ mq' = [mq EXCEPT !.job[t] = [msg |-> mq.pending, phase |-> "run", conn |-> t],
                        !.runs[mq.pending] = @ + 1,
                        !.pending = 0]
    /\ UNCHANGED jobvars

\* Lines 63-66: process_data_events returns or raises (the exception is
\* logged), and the thread sleeps.
HbIoEnd(t) ==
    /\ mq.stage = "on"
    /\ mq.hb[t] = "io"
    /\ mq.job[t] = NoJob
    /\ mq' = [mq EXCEPT !.hb[t] = "sleep"]
    /\ UNCHANGED jobvars

\* Line 66: time.sleep is over.  The thirty seconds, like the waits of the
\* main thread, end only when no other heartbeat thread is between two
\* statements.
HbWake(t) ==
    /\ mq.stage = "on"
    /\ mq.hb[t] = "sleep"
    /\ \A u \in Conns \ {t} : ~Busy(u)
    /\ mq' = [mq EXCEPT !.hb[t] = "check"]
    /\ UNCHANGED jobvars

\* Lines 67-68: finally: heartbeat_running = False; the thread ends.
HbExit(t) ==
    /\ mq.stage = "on"
    /\ mq.hb[t] = "exit"
    /\ mq' = [mq EXCEPT !.heartbeat_running = FALSE, !.hb[t] = "dead"]
    /\ UNCHANGED jobvars

\* callback_func returns to its caller: start_consuming on the main thread,
\* process_data_events on a heartbeat thread.
JobReturns(q, th) ==
    [q EXCEPT !.job[th] = NoJob,
              !.cpc = IF th = 0 THEN "consume" ELSE @]

\* callback_func lines 420-563: decode, workspace, checkers and the callback
\* POST either reach basic_ack or raise.
JobRun(th) ==
    /\ mq.stage = "on"
    /\ mq.job[th].phase = "run"
    /\ \E ok \in BOOLEAN :
          mq' = [mq EXCEPT !.job[th].phase = IF ok THEN "ack" ELSE "cleanup_exc"]
    /\ UNCHANGED jobvars

\* Line 565: basic_ack; on a closed connection or channel it raises.  The
\* field ch_open is the state of the channel made at line 75.
JobAck(th) ==
    /\ mq.stage = "on"
    /\ mq.job[th].phase = "ack"
    /\ LET j == mq.job[th]
       IN  IF mq.ch_open[j.conn] /\ mq.unacked = j.msg
           THEN mq' = [mq EXCEPT !.acked = @ \cup {j.msg},
                                 !.unacked = 0,
                                 !.job[th].phase = "cleanup"]
           ELSE mq' = [mq EXCEPT !.job[th].phase = "cleanup_exc"]
    /\ UNCHANGED jobvars

\* Lines 567-568: project.cleanup() in the finally clause, with or without a
\* pending exception; it may raise itself.
JobCleanup(th) ==
    /\ mq.stage = "on"
    /\ mq.job[th].phase \in {"cleanup", "cleanup_exc"}
    /\ \E rmOk \in BOOLEAN :
          IF mq.job[th].phase = "cleanup" /\ rmOk
          THEN mq' = JobReturns(mq, th)
          ELSE mq' = [mq EXCEPT !.job[th].phase = "nack"]
    /\ UNCHANGED jobvars

\* Lines 570-573: basic_nack(requeue=False).  On a closed connection or
\* channel it raises out of callback_func: into the except clauses of
\* consumer on the main thread (ChannelWrongStateError is an
\* AMQPChannelError), into line 64 on a heartbeat thread.
JobNack(th) ==
    /\ mq.stage = "on"
    /\ mq.job[th].phase = "nack"
    /\ LET j == mq.job[th]
       IN  IF mq.ch_open[j.conn] /\ mq.unacked = j.msg
           THEN mq' = [JobReturns(mq, th) EXCEPT !.nacked = @ \cup {j.msg},
                                                 !.unacked = 0]
           ELSE IF mq.ch_open[j.conn] /\ j.msg \in mq.acked
                THEN mq' = [JobReturns(mq, th) EXCEPT !.nacked = @ \cup {j.msg}]
                ELSE IF th = 0
                     THEN mq' = [mq EXCEPT !.job[th] = NoJob,
                                           !.caught = "channel",
                                           !.cpc = "h_stop",
                                           !.before = mq.acked]
                     ELSE mq' = [mq EXCEPT !.job[th] = NoJob]
    /\ UNCHANGED jobvars

\* The broker sends the next message of the queue to the consumer of the
\* open connection when no delivery is unacknowledged (basic_qos
\* prefetch_count=1, line 76).
BrokerDeliver ==
    /\ mq.stage = "on"
    /\ mq.cpc \in {"consume", "callback"}
    /\ mq.is_open[mq.connection]
    /\ mq.unacked = 0
    /\ mq.pending = 0
    /\ \E m \in mq.queue :
          mq' = [mq EXCEPT !.queue = @ \ {m}, !.unacked = m, !.pending = m]
    /\ UNCHANGED jobvars

\* The broker closes the connection.
BrokerCloses ==
    /\ mq.stage = "on"
    /\ mq.cpc \in {"consume", "callback"}
    /\ mq.is_open[mq.connection]
    /\ mq.faults < MaxFaults
    /\ mq' = [Requeue(mq) EXCEPT !.is_open[mq.connection] = FALSE,
                                 !.faults = @ + 1]
    /\ UNCHANGED jobvars

MqNext ==
    \/ Connect
    \/ StartHeartbeat
    \/ MainDispatch
    \/ ConsumeSeesClosure
    \/ ConsumeRaises
    \/ ExceptStop
    \/ ExceptJoin
    \/ ExceptSleep
    \/ ExceptClose
    \/ ExceptReturn
    \/ FinallyStop
    \/ FinallyJoin
    \/ FinallyClose
    \/ \E t \in Conns :
          \/ HbBegin(t)
          \/ HbCheck(t)
          \/ HbTestOpen(t)
          \/ HbDispatch(t)
          \/ HbIoEnd(t)
          \/ HbWake(t)
          \/ HbExit(t)
    \/ \E th \in Threads :
          \/ JobRun(th)
          \/ JobAck(th)
          \/ JobCleanup(th)
          \/ JobNack(th)
    \/ BrokerDeliver
    \/ BrokerCloses

SpecConsumer == MqInit /\ [][MqNext]_vars

\* The threads that are inside callback_func.
InCallback == {th \in Threads : mq.job[th] # NoJob}

\* C21: at most one callback_func is in progress at any time, its workspace
\* teardown included, whatever the interleaving of the consume loop and the
\* heartbeat threads.
C21_OneJobAtATime == Cardinality(InCallback) <= 1

\* A heartbeat thread that was started and has not ended.
Alive(t) == mq.hb[t] \notin {"none", "dead"}

\* C22: when a pass of the while loop is over (the finally clause has run and
\* the next connection attempt is about to begin, or consumer has returned),
\* every heartbeat thread that was started has ended.
C22_HeartbeatJoined ==
    mq.cpc \in {"connect", "returned"} => \A t \in Conns : ~Alive(t)

\* The main thread is inside a call that does I/O on connection c:
\* start_consuming waiting for data, or basic_ack / basic_nack of the
\* callback it runs.
MainIO(c) ==
    /\ mq.connection = c
    /\ \/ mq.cpc = "consume"
       \/ mq.cpc = "callback" /\ mq.job[0].phase \in {"ack", "nack"}

\* Heartbeat thread t is inside connection.process_data_events().
HeartbeatIO(t) == mq.hb[t] = "io"

\* C23: the heartbeat thread of a connection is never inside
\* process_data_events while the main thread is inside a call that does I/O
\* on that connection.
C23_SerializedIO ==
    \A c \in Conns : ~(MainIO(c) /\ HeartbeatIO(c))

\* C24: after ConnectionClosedByBroker or AMQPChannelError the connection of
\* the failed pass is closed by the time the 60 s wait begins, the wait is
\* over before the finally clause, and only then a new connection attempt
\* starts: stop the heartbeat, close, wait, connect.
C24_TeardownOrder ==
    (mq.cpc = "h_sleep" /\ mq.connection # 0) => ~mq.is_open[mq.connection]

\* The scheduler lets every thread that can take a step take one, the timed
\* waits of the main thread (join with a timeout, sleep) come to an end, and
\* the broker delivers what it may deliver.
SpecConsumerFair ==
    /\ SpecConsumer
    /\ WF_vars(Connect)
    /\ WF_vars(StartHeartbeat \/ MainDispatch \/ ConsumeSeesClosure)
    /\ SF_vars(ExceptStop \/ ExceptJoin \/ ExceptSleep \/ ExceptClose \/ ExceptReturn)
    /\ SF_vars(FinallyStop \/ FinallyJoin \/ FinallyClose)
    /\ \A t \in Conns :
          WF_vars(HbBegin(t) \/ HbCheck(t) \/ HbTestOpen(t) \/ HbIoEnd(t)
                  \/ HbWake(t) \/ HbExit(t))
    /\ \A th \in Threads :
          WF_vars(JobRun(th) \/ JobAck(th) \/ JobCleanup(th) \/ JobNack(th))
    /\ WF_vars(BrokerDeliver)

\* The except clause of ConnectionClosedByBroker or AMQPChannelError is
\* entered for a pass that had started its heartbeat thread.
Reconnecting ==
    /\ mq.cpc = "h_stop"
    /\ mq.caught \in Reconnects
    /\ mq.heartbeat_thread # 0

\* The consume loop is inside start_consuming and the heartbeat thread of
\* its connection is in its loop with heartbeat_running set.
ConsumingWithHeartbeat ==
    /\ mq.cpc \in {"consume", "callback"}
    /\ mq.heartbeat_thread = mq.connection
    /\ mq.hb[mq.connection] \in {"check", "test_open", "io", "sleep"}
    /\ mq.heartbeat_running

\* C25: after ConnectionClosedByBroker or AMQPChannelError during consuming
\* the consumer gets back to start_consuming with a running heartbeat thread,
\* unless a later exception of another class ends it; and a message that was
\* acknowledged when the error came stays acknowledged, is not handed to
\* callback_func again and is not rejected afterwards.
C25_ReconnectLiveness ==
    /\ Reconnecting ~> (ConsumingWithHeartbeat \/ mq.caught = "other")
    /\ [][\A m \in mq.before :
             /\ m \in mq'.acked
             /\ mq'.runs[m] = mq.runs[m]
             /\ (m \in mq'.nacked) <=> (m \in mq.nacked)]_vars

C25_Witness ==
    /\ ConsumingWithHeartbeat
    /\ mq.connection = 2
    /\ mq.before # {}
    /\ mq.job[0].msg \notin mq.before \cup {0}

\* No heartbeat thread will call process_data_events again: the flag is
\* False, no thread has yet to set it, and a thread that is past the test of
\* the flag finds its connection closed at line 61.
HeartbeatStopped ==
    /\ ~mq.heartbeat_running
    /\ \A t \in Conns : /\ mq.hb[t] # "started"
                        /\ mq.hb[t] = "test_open" => ~mq.is_open[t]

\* C26: an exception of another class than the two reconnect classes, a
\* failed connection attempt included, ends consumer: no further connection
\* is attempted, consumer returns, and when it has returned the heartbeat
\* has been stopped, the connection is closed and the caller holds the
\* error (the return value).
C26_FatalTerminates ==
    /\ [](mq.cpc = "returned" => /\ mq.caught = "other"
                                 /\ mq.ret = "error"
                                 /\ HeartbeatStopped
                                 /\ mq.connection # 0 => ~mq.is_open[mq.connection])
    /\ [][mq.caught = "other" => /\ mq'.caught = "other"
                                 /\ mq'.conns = mq.conns
                                 /\ mq'.cpc # "connect"]_vars
    /\ (mq.caught = "other") ~> (mq.cpc = "returned")

C26_Witness ==
    /\ mq.cpc = "returned"
    /\ mq.heartbeat_thread # 0
    /\ mq.acked # {}
    /\ \E t \in Conns : Alive(t)

\* The checkers whose return value is a (result, error) pair.
PairCheckers ==
    {"release-checker", "readme-opensource-checker", "build-doc-checker",
     "api-doc-checker"}

\* This step is one iteration of the loop in which the checker of the
\* command returned, under env, a pair with an error.
ReturnedError(env) ==
    /\ pc = "dispatch"
    /\ idx <= Len(command_list)
    /\ command_list[idx] \in PairCheckers
    /\ idx' = idx + 1
    /\ LET out == RunChecker(command_list[idx], ws, repo, message.commit_hash, env)
       IN  /\ ~out.raised
           /\ out.err # NoneVal
           /\ ws' = out.ws
           /\ scan_results' = DispatchOne(scan_results, command_list[idx], out)

\* C27: when one of the four checkers that return (result, error) returns
\* an error, scan_results[command] is an {"error": ...} object after the
\* iteration, the other entries are as before and the loop goes on.
C27_ReturnedErrorRecorded ==
    [][\A env \in Envs :
          ReturnedError(env) =>
             /\ scan_results'[command_list[idx]].tag = "error"
             /\ \A k \in DOMAIN scan_results \ {command_list[idx]} :
                   scan_results'[k] = scan_results[k]
             /\ pc' = "dispatch"]_vars

\* The positions of an event in the trace of the job.
Positions(e) == {i \in 1..Len(trace) : trace[i] = e}

\* The position of the last cleanup of the job: the one of the finally clause.
LastCleanup == CHOOSE i \in Positions("cleanup") : \A j \in Positions("cleanup") : j <= i

\* C28 as stated: when a job with a materialized workspace is over, cleanup was
\* invoked, and basic_ack or basic_nack came before the cleanup of the
\* finally clause.
C28_FinalizeThenTeardown ==
    (pc = "done" /\ materialized) =>
       /\ Positions("cleanup") # {}
       /\ \E i \in Positions("ack") \cup Positions("nack") : i < LastCleanup

\* C28 (amended): on every path with a materialized workspace the finally
\* clause invokes cleanup; basic_ack comes before that cleanup, and
\* basic_nack comes after it.
C28_TeardownBetweenAckAndNack ==
    /\ (pc \in {"nack", "done"} /\ materialized) => Positions("cleanup") # {}
    /\ (pc = "done" /\ materialized) =>
          /\ \A i \in Positions("ack") : i < LastCleanup
          /\ \A i \in Positions("nack") : LastCleanup < i
          /\ Positions("ack") \cup Positions("nack") # {}

C28_Witness ==
    /\ pc = "done"
    /\ materialized
    /\ Invoked # <<>>
    /\ Len(posted) = 1
    /\ acks = 0
    /\ nacks = 1

\* What callback_func writes to the log about the result of command k: only
\* the except clause of the loop logs one ("Error executing command
\* {command}: {e}", line 556, the text stored as {"error": str(e)}); a result
\* that a checker returned is never logged, and lines 571-572 log the
\* exception and the message body, which holds no result.  The entry of k
\* is in the log when the latest invocation of k ended in that clause.
ResultLogged(k) ==
    /\ Positions(k) # {}
    /\ LET last == CHOOSE i \in Positions(k) : \A j \in Positions(k) : j <= i
       IN  \E i \in (last + 1)..Len(trace) :
              /\ trace[i] = "Error executing command"
              /\ \A j \in (last + 1)..(i - 1) : trace[j] \notin Registered

\* The callback POST of the job failed: it raised or request_url returned None.
DeliveryFailed == Len(posted) > 0 /\ "callback" \in exc

\* C29: when the callback delivery failed, every entry of scan_results has
\* been written to the log by the time the message is rejected.
C29_ResultsLoggedBeforeNack ==
    (DeliveryFailed /\ nacks > 0) => \A k \in DOMAIN scan_results : ResultLogged(k)

\* C30: when callback_func is over, exactly one of basic_ack and basic_nack
\* has been invoked for the message, once.
C30_ExactlyOneFinalization ==
    pc = "done" => acks + nacks = 1

\* C31: while the dispatch loop of a job with a materialized workspace has
\* a command left to dispatch, the workspace directory exists.
C31_WorkspaceKeptDuringDispatch ==
    (pc = "dispatch" /\ materialized /\ idx <= Len(command_list)) => ws.exists

\* The consumer is consuming on its current connection and the heartbeat
\* thread of that connection has set the flag (line 57).
ConsumingBegun ==
    /\ mq.stage = "on"
    /\ mq.cpc \in {"consume", "callback"}
    /\ mq.connection # 0
    /\ mq.hb[mq.connection] \notin {"none", "started"}

\* C32: while the consumer consumes on a connection, the heartbeat thread
\* of that connection, once it has begun, is looping and heartbeat_running
\* is True, whatever the heartbeat threads of earlier connections do.
C32_HeartbeatKeepsRunning ==
    ConsumingBegun => /\ mq.heartbeat_running
                      /\ mq.hb[mq.connection] \notin {"exit", "dead"}

\* Thread t passes the test of the flag at line 59 in this step and goes
\* round its loop once more.
GoesRound(t) == mq.hb[t] = "check" /\ mq'.hb[t] = "test_open"

\* C33: once the heartbeat thread of a later connection has been started,
\* no heartbeat thread of an earlier connection goes round its loop again,
\* so at most one heartbeat thread is looping.
C33_OneHeartbeatThread ==
    [][\A t \in Conns : GoesRound(t) => \A u \in Conns : (u > t) => mq.hb[u] = "none"]_vars

\* The consume loop and callback_func keep running: a statement that can be
\* executed is executed.
SpecFair == Spec /\ WF_vars(Next)

\* C34: a failure of decode, validation, URL parsing, clone, checkout,
\* lock-file generation, callback delivery or cleanup is handled inside
\* callback_func by the outer except clause (the message is rejected), a
\* failure of a checker by the except clause of the loop, and callback_func
\* then returns to the consume loop, which waits for the next message.
C34_FailuresStayInCallback ==
    /\ [](exc # {} => pc \in {"finally", "nack", "done"})
    /\ []((pc = "done" /\ exc # {}) => (nacks = 1 /\ trace[Len(trace)] = "nack"))
    /\ (pc # "idle") ~> (pc = "idle")

C34_Witness ==
    /\ pc = "done"
    /\ "Error executing command" \in Range(trace)
    /\ exc = {"callback", "cleanup"}
    /\ nacks = 1

\* C35: the consumer consumes only on the connection and channel made in
\* the current iteration of its loop, with prefetch_count 1 set on that
\* channel; every earlier connection is closed by then, and the connection
\* variable never goes back to a connection that was used before.
C35_FreshConnection ==
    /\ [](mq.stage = "on" /\ mq.cpc \in {"start_hb", "consume", "callback"} =>
            /\ mq.connection = mq.conns
            /\ mq.prefetch[mq.connection] = 1
            /\ \A c \in Conns : (c < mq.connection) => (~mq.is_open[c] /\ ~mq.ch_open[c])
            /\ mq.cpc = "callback" => mq.job[0].conn = mq.connection)
    /\ [](mq.stage = "on" /\ mq.cpc = "connect" => \A c \in Conns : ~mq.is_open[c])
    /\ [][mq'.connection # mq.connection => mq'.connection \in {0, mq.conns + 1}]_vars

C35_Witness ==
    /\ mq.stage = "on"
    /\ mq.cpc = "callback"
    /\ mq.connection = 2
    /\ mq.job[0].conn = 2
    /\ mq.is_open[2]
    /\ mq.runs[mq.job[0].msg] = 2

\* This step is line 446: project.clone_if_not_exists().
CloneStep == pc = "clone" /\ pc' # "clone"

\* C36: clone_if_not_exists runs git clone exactly when the directory is
\* missing; a directory that is there is taken as it is, with no clone; and
\* after the cleanup of the finally clause the directory is gone whether it
\* was cloned or found (unless the rm itself failed).
C36_CloneIffMissing ==
    /\ [][CloneStep =>
            /\ (trace' = Append(trace, "clone")) <=> ~ws.exists
            /\ ws.exists => (trace' = trace /\ ws' = ws /\ materialized')]_vars
    /\ []((pc \in {"nack", "done"} /\ materialized /\ "cleanup" \notin exc) => ~ws.exists)

C36_Witness ==
    /\ pc = "done"
    /\ materialized
    /\ "clone" \notin Range(trace)
    /\ "rm" \in Range(trace)
    /\ ~ws.exists

(***************************************************************************)
(* main.py: the OpenCheck resource.  One request at a time goes through    *)
(* validate_payload, OpenCheck.post and publish_message.  The request has  *)
(* passed jwt_required.                                                    *)
(***************************************************************************)

RequiredFields == {"commands", "project_url", "callback_url", "task_metadata"}

\* The request bodies: a JSON object with some of the keys, or a JSON array
\* with some of the names as elements; is_json is the Content-Type test.
Requests ==
    [is_json : BOOLEAN, kind : {"object", "array"},
     fields : SUBSET (RequiredFields \cup {"commit_hash"})]

NoRequest == [is_json |-> FALSE, kind |-> "object", fields |-> {}]

\* What can happen inside publish_message: every call succeeds, or
\* BlockingConnection / channel, basic_publish or connection.close raises an
\* exception whose str() is text.
PublishOutcomes ==
    [step : {"ok", "connect", "publish", "close"}, text : {"", "connection refused"}]

\* publish_message: None when no call raised, else str(e); the message is
\* in the queue once basic_publish has returned.
publish_message(o) ==
    [published |-> o.step \in {"ok", "close"},
     ret |-> IF o.step = "ok" THEN NoneVal ELSE o.text]

ApiInit ==
    /\ pc = "idle"
    /\ message = NoMessage
    /\ repo = {}
    /\ ws = NoWorkspace
    /\ res_payload = NoPayload
    /\ idx = 1
    /\ exc = {}
    /\ materialized = FALSE
    /\ response = NoResponse
    /\ posted = <<>>
    /\ acks = 0
    /\ nacks = 0
    /\ trace = <<>>
    /\ iso = IsoOff
    /\ mq = MqOff
    /\ api = [stage |-> "on", pc |-> "idle", request |-> NoRequest,
              attempted |-> FALSE, published |-> FALSE, pub_res |-> NoneVal,
              status |-> 0, body |-> ""]

apivars == <<pc, message, repo, ws, res_payload, idx, exc, materialized, response,
             posted, acks, nacks, trace, iso, mq>>

\* A POST on /opencheck arrives.
ApiRequest ==
    /\ api.stage = "on"
    /\ api.pc = "idle"
    /\ \E r \in Requests :
          api' = [api EXCEPT !.pc = "validate", !.request = r,
                             !.attempted = FALSE, !.published = FALSE,
                             !.pub_res = NoneVal, !.status = 0, !.body = ""]
    /\ UNCHANGED apivars

\* validate_payload, lines 41-53.
validate_payload ==
    /\ api.stage = "on"
    /\ api.pc = "validate"
    /\ IF ~api.request.is_json
       THEN api' = [api EXCEPT !.pc = "responded", !.status = 400,
                               !.body = "Content-Type must be application/json"]
       ELSE IF RequiredFields \ api.request.fields # {}
            THEN api' = [api EXCEPT !.pc = "responded", !.status = 400,
                                    !.body = "Missing required fields"]
            ELSE api' = [api EXCEPT !.pc = "post"]
    /\ UNCHANGED apivars

\* OpenCheck.post, lines 81-92: the message is built and handed to
\* publish_message; subscripting an array with a key raises TypeError, which
\* the except clause (102-104) answers.
ApiPublish ==
    /\ api.stage = "on"
    /\ api.pc = "post"
    /\ IF api.request.kind = "array"
       THEN api' = [api EXCEPT !.pc = "responded", !.status = 500,
                               !.body = "Internal server error"]
       ELSE \E o \in PublishOutcomes :
               api' = [api EXCEPT !.pc = "answer", !.attempted = TRUE,
                                  !.published = publish_message(o).published,
                                  !.pub_res = publish_message(o).ret]
    /\ UNCHANGED apivars

\* OpenCheck.post, lines 94-100: if not pub_res.
ApiAnswer ==
    /\ api.stage = "on"
    /\ api.pc = "answer"
    /\ IF Falsy(api.pub_res)
       THEN api' = [api EXCEPT !.pc = "responded", !.status = 500,
                               !.body = "Failed to publish message"]
       ELSE api' = [api EXCEPT !.pc = "responded", !.status = 200,
                               !.body = "Message received, start check"]
    /\ UNCHANGED apivars

\* The response has been sent; the resource serves the next request.
ApiDone ==
    /\ api.stage = "on"
    /\ api.pc = "responded"
    /\ api' = [api EXCEPT !.pc = "idle"]
    /\ UNCHANGED apivars

ApiNext ==
    \/ ApiRequest
    \/ validate_payload
    \/ ApiPublish
    \/ ApiAnswer
    \/ ApiDone

SpecApi == ApiInit /\ [][ApiNext]_vars

\* C37: the answer of OpenCheck.post is the success message exactly when the
\* job was published, the 500 'Failed to publish message' exactly when
\* publish_message was called and did not publish, and a request that lacks
\* one of the four required fields is answered 400 with nothing published.
C37_AnswerMatchesPublish ==
    (api.stage = "on" /\ api.pc = "responded") =>
       /\ (api.body = "Message received, start check") <=> api.published
       /\ (api.status = 500 /\ api.body = "Failed to publish message")
             <=> (api.attempted /\ ~api.published)
       /\ (api.request.is_json /\ RequiredFields \ api.request.fields # {})
             => (api.status = 400 /\ ~api.attempted /\ ~api.published)

====
